---------------------------- MODULE Spec2Model ----------------------------
(***************************************************************************)
(* Model of the MySQL -> Dameng script converter                           *)
(* (large_file_converter.py) and of its textual preprocessor.              *)
(*                                                                         *)
(* Texts are sequences of lexical units.  A unit is either one of the      *)
(* literal words the converter's regular expressions look for (in upper or *)
(* lower case), a blank " ", the sign "=", the letter "x" or the digit     *)
(* "1".  No literal word of a pattern occurs inside another unit or across *)
(* the border of two units (no unit ends in a proper prefix of a pattern   *)
(* word), so matching a pattern unit by unit gives exactly the matches     *)
(* that re.sub finds in the concatenated characters.                       *)
(***************************************************************************)
EXTENDS Integers, Sequences, FiniteSets, TLC

VARIABLES
    pc,                     \* position in convert_mysql_to_dameng
    script,                 \* f_in.read(): the raw statements of the input file
    sql_content,            \* the script after the global charset rewrite
    expressions,            \* sqlglot.parse(...): one entry per statement
    total_statements,       \* len(expressions)
    i,                      \* number of loop iterations finished
    original_sql,           \* expr.sql() of the statement being processed
    successful_direct,
    successful_preprocessed,
    failed_conversions,
    output,                 \* what has been written to f_out, in order
    log,                    \* the records sent to logging, in order
    calls,                  \* history: transpile / preprocess invocations
    charset_passes,         \* history: runs of the global charset rewrite
    returned,               \* what the caller of the function gets back
    pp_in,                  \* preprocessor harness: the text under test
    pp_out,                 \* preprocessor harness: results so far
    gen_in,                 \* generator harness: the construct to render
    gen_out                 \* generator harness: the rendered text

vars == <<pc, script, sql_content, expressions, total_statements, i,
          original_sql, successful_direct, successful_preprocessed,
          failed_conversions, output, log, calls, charset_passes,
          returned, pp_in, pp_out, gen_in, gen_out>>

pipeVars == <<pc, script, sql_content, expressions, total_statements, i,
              original_sql, successful_direct, successful_preprocessed,
              failed_conversions, output, log, calls, charset_passes,
              returned>>

ppVars == <<pp_in, pp_out>>

genVars == <<gen_in, gen_out>>

-----------------------------------------------------------------------------
(* Bounds *)

MaxStmts == 2

MaxParts == 4

-----------------------------------------------------------------------------
(* Lexical units and character classes of Python's re module *)

\* re.IGNORECASE: a unit is compared after case folding.
Upper(u) ==
    CASE u = "using" -> "USING"
      [] u = "btree" -> "BTREE"
      [] u = "auto_increment" -> "AUTO_INCREMENT"
      [] u = "row_format" -> "ROW_FORMAT"
      [] u = "utf8mb4" -> "UTF8MB4"
      [] u = "Utf8Mb4" -> "UTF8MB4"
      [] OTHER -> u

\* \s
IsSpace(u) == u = " "

\* \d
IsDigit(u) == u = "1"

\* \w : every unit but the blank and "=" consists of [A-Za-z0-9_] only
IsWord(u) == u # " " /\ u # "="

RECURSIVE SkipSpace(_, _)
\* \s* from position p: the position after the longest run of blanks
SkipSpace(s, p) ==
    IF p <= Len(s) /\ IsSpace(s[p]) THEN SkipSpace(s, p + 1) ELSE p

RECURSIVE SkipDigit(_, _)
\* \d* from position p (greedy)
SkipDigit(s, p) ==
    IF p <= Len(s) /\ IsDigit(s[p]) THEN SkipDigit(s, p + 1) ELSE p

RECURSIVE SkipWord(_, _)
\* \w* from position p (greedy)
SkipWord(s, p) ==
    IF p <= Len(s) /\ IsWord(s[p]) THEN SkipWord(s, p + 1) ELSE p

\* the literal word w at position p, ignoring case
WordAt(s, p, w) == p <= Len(s) /\ Upper(s[p]) = w

-----------------------------------------------------------------------------
(* The four patterns of preprocess_sql_statement.  Each operator gives the *)
(* position just after the match that starts at p, or 0 when the pattern   *)
(* does not match at p.  A greedy run is always followed by a unit of      *)
(* another class, so the regex engine never has to backtrack.              *)

\* r"USING\s+BTREE"
MatchUsingBtree(s, p) ==
    IF WordAt(s, p, "USING")
    THEN LET q == SkipSpace(s, p + 1)
         IN  IF q > p + 1 /\ WordAt(s, q, "BTREE") THEN q + 1 ELSE 0
    ELSE 0

\* r"ON\s+UPDATE\s+CURRENT_TIMESTAMP"
MatchOnUpdate(s, p) ==
    IF WordAt(s, p, "ON")
    THEN LET q == SkipSpace(s, p + 1)
         IN  IF q > p + 1 /\ WordAt(s, q, "UPDATE")
             THEN LET r == SkipSpace(s, q + 1)
                  IN  IF r > q + 1 /\ WordAt(s, r, "CURRENT_TIMESTAMP")
                      THEN r + 1 ELSE 0
             ELSE 0
    ELSE 0

\* r"ROW_FORMAT\s*=\s*\w+"
MatchRowFormat(s, p) ==
    IF WordAt(s, p, "ROW_FORMAT")
    THEN LET q == SkipSpace(s, p + 1)
         IN  IF WordAt(s, q, "=")
             THEN LET r == SkipSpace(s, q + 1)
                      e == SkipWord(s, r)
                  IN  IF e > r THEN e ELSE 0
             ELSE 0
    ELSE 0

\* r"AUTO_INCREMENT\s*=\s*\d+"
MatchAutoIncrement(s, p) ==
    IF WordAt(s, p, "AUTO_INCREMENT")
    THEN LET q == SkipSpace(s, p + 1)
         IN  IF WordAt(s, q, "=")
             THEN LET r == SkipSpace(s, q + 1)
                      e == SkipDigit(s, r)
                  IN  IF e > r THEN e ELSE 0
             ELSE 0
    ELSE 0

MatchEnd(rule, s, p) ==
    CASE rule = 1 -> MatchUsingBtree(s, p)
      [] rule = 2 -> MatchOnUpdate(s, p)
      [] rule = 3 -> MatchRowFormat(s, p)
      [] rule = 4 -> MatchAutoIncrement(s, p)

RECURSIVE SubFrom(_, _, _)
\* re.sub(pattern, "", s) scanning from position p: the leftmost match is
\* deleted and the scan goes on after it; an unmatched unit is copied.
SubFrom(rule, s, p) ==
    IF p > Len(s) THEN <<>>
    ELSE LET e == MatchEnd(rule, s, p)
         IN  IF e # 0 THEN SubFrom(rule, s, e)
             ELSE <<s[p]>> \o SubFrom(rule, s, p + 1)

ReSub(rule, s) == SubFrom(rule, s, 1)

\* preprocess_sql_statement: the four rules, in order
preprocess_sql_statement(sql) ==
    ReSub(4, ReSub(3, ReSub(2, ReSub(1, sql))))

-----------------------------------------------------------------------------
(* The script, its global charset rewrite and the front-end *)

\* Raw statement texts an input script is drawn from.
StmtTexts ==
    { <<"x">>,
      <<"x", " ", "using", " ", " ", "BTREE">>,
      <<"x", " ", "ROW_FORMAT", "=", "x", " ", "AUTO_INCREMENT", "=", "1">>,
      <<"x", " ", "Utf8Mb4">> }

Scripts == UNION { [1..n -> StmtTexts] : n \in 0..MaxStmts }

\* the rewrite without flags=re.IGNORECASE
RewriteCharset_CaseSensitive(text) ==
    [k \in 1..Len(text) |->
        IF text[k] = "utf8mb4" THEN "UTF8" ELSE text[k]]

\* re.sub(r'utf8mb4', 'UTF8', text, flags=re.IGNORECASE) on one statement
RewriteCharset(text) ==
    [k \in 1..Len(text) |->
        IF Upper(text[k]) = "UTF8MB4" THEN "UTF8" ELSE text[k]]

\* the same substitution over the whole script (it never spans a ";")
GlobalNormalize(s) == [k \in 1..Len(s) |-> RewriteCharset(s[k])]

RECURSIVE CollapseBlanks(_, _)
CollapseBlanks(s, p) ==
    IF p > Len(s) THEN <<>>
    ELSE IF IsSpace(s[p]) /\ p < Len(s) /\ IsSpace(s[p + 1])
         THEN CollapseBlanks(s, p + 1)
         ELSE <<s[p]>> \o CollapseBlanks(s, p + 1)

\* Expression.sql(): the tree rendered back to text by the generic generator:
\* keywords in upper case, one blank between tokens.
ExprSql(text) ==
    LET up == [k \in 1..Len(text) |-> Upper(text[k])]
    IN  CollapseBlanks(up, 1)

\* the check of line 81 left out
IsExpression_Always(e) == TRUE

\* isinstance(expr, Expression): the front-end gave a tree, not None
IsExpression(e) == e.tree

\* the increment left out
CountFailure_Forgotten(n) == n

\* failed_conversions += 1
CountFailure(n) == n + 1

\* Every handler of lines 119-122 ends without raising, and so does line 117:
\* the function returns None to its caller (a script run ends with status 0).
ReturnsNone == "None"

\* the generator harness is idle
NoConstruct == [kind |-> "none"]

\* A log record.
Entry(level, event, idx, text) ==
    [level |-> level, event |-> event, idx |-> idx, text |-> text]

NoText == <<>>

\* str(None)[:100]
NonePreview == <<"None">>

\* the text put in front of the file instead of at its end
WriteStatement_Prepend(out, idx, via, sql) ==
    <<[idx |-> idx, via |-> via, sql |-> sql, term |-> ";\n"]>> \o out

\* the write left out
WriteStatement_Dropped(out, idx, via, sql) == out

\* f_out.write(dameng_sql + ';\n')
WriteStatement(out, idx, via, sql) ==
    Append(out, [idx |-> idx, via |-> via, sql |-> sql, term |-> ";\n"])

\* (successful_direct + successful_preprocessed) / total_statements * 100,
\* in whole percent
SuccessRate(d, p, t) == ((d + p) * 100) \div t

\* lines 57, 70 and 73-74: the records logged up to the parse
PreambleLog(raw, rewritten) ==
    <<Entry("INFO", "start", 0, NoText),
      Entry("INFO", "global_preprocess", 0, NoText)>>
    \o (IF rewritten # raw
        THEN <<Entry("INFO", "charset_replaced", 0, NoText)>>
        ELSE <<>>)

\* line 122: the top-level handler of an unknown error
UnknownError == Entry("ERROR", "unknown_error", 0, NoText)

-----------------------------------------------------------------------------
(* convert_mysql_to_dameng *)

Init ==
    /\ pc = "start"
    /\ script = <<>>
    /\ sql_content = <<>>
    /\ expressions = <<>>
    /\ total_statements = 0
    /\ i = 0
    /\ original_sql = NoText
    /\ successful_direct = 0
    /\ successful_preprocessed = 0
    /\ failed_conversions = 0
    /\ output = <<>>
    /\ log = <<>>
    /\ calls = <<>>
    /\ charset_passes = 0
    /\ returned = "running"
    /\ gen_in = NoConstruct
    /\ gen_out = <<>>
    /\ pp_in= <<>>
    /\ pp_out = <<>>

\* open(input_file) raises FileNotFoundError
StartNotFound ==
    /\ pc = "start"
    /\ log' = <<Entry("INFO", "start", 0, NoText),
                Entry("ERROR", "input_not_found", 0, NoText)>>
    /\ pc' = "not_found"
    /\ returned' = ReturnsNone
    /\ UNCHANGED <<script, sql_content, expressions, total_statements, i,
                   original_sql, successful_direct, successful_preprocessed,
                   failed_conversions, output, calls, charset_passes, ppVars,
                   genVars>>

\* open() or f_in.read() raises another error (permission, decoding)
StartUnreadable ==
    /\ pc = "start"
    /\ log' = <<Entry("INFO", "start", 0, NoText), UnknownError>>
    /\ pc' = "unknown"
    /\ returned' = ReturnsNone
    /\ UNCHANGED <<script, sql_content, expressions, total_statements, i,
                   original_sql, successful_direct, successful_preprocessed,
                   failed_conversions, output, calls, charset_passes, ppVars,
                   genVars>>

\* the script is read and rewritten, and sqlglot.parse raises
StartParseError ==
    /\ pc = "start"
    /\ \E s \in Scripts :
        /\ script' = s
        /\ sql_content' = GlobalNormalize(s)
        /\ log' = PreambleLog(s, GlobalNormalize(s)) \o <<UnknownError>>
    /\ charset_passes' = charset_passes + 1
    /\ pc' = "unknown"
    /\ returned' = ReturnsNone
    /\ UNCHANGED <<expressions, total_statements, i, original_sql,
                   successful_direct, successful_preprocessed,
                   failed_conversions, output, calls, ppVars,
                   genVars>>

\* lines 66-78: the script is read, rewritten and parsed; the front-end
\* gives a tree (an Expression) or None for each statement
StartParsed ==
    /\ pc = "start"
    /\ \E s \in Scripts : \E tree \in [1..Len(s) -> BOOLEAN] :
        /\ script' = s
        /\ sql_content' = GlobalNormalize(s)
        /\ expressions' =
             [k \in 1..Len(s) |->
                [tree |-> tree[k],
                 text |-> IF tree[k] THEN GlobalNormalize(s)[k] ELSE NoText]]
        /\ total_statements' = Len(s)
        /\ log' = PreambleLog(s, GlobalNormalize(s))
                  \o <<Entry("INFO", "detected", Len(s), NoText)>>
    /\ charset_passes' = charset_passes + 1
    /\ pc' = "loop"
    /\ UNCHANGED <<i, original_sql, successful_direct,
                   successful_preprocessed, failed_conversions, output,
                   calls, ppVars,
                   genVars, returned>>

\* lines 81-84: the entry is not an Expression
StatementUnparseable ==
    /\ pc = "loop"
    /\ i < total_statements
    /\ ~IsExpression(expressions[i + 1])
    /\ failed_conversions' = CountFailure(failed_conversions)
    /\ log' = Append(log, Entry("WARNING", "unparseable", i + 1, NonePreview))
    /\ i' = i + 1
    /\ UNCHANGED <<pc, script, sql_content, expressions, total_statements,
                   original_sql, successful_direct, successful_preprocessed,
                   output, calls, charset_passes, ppVars,
                   genVars, returned>>

\* line 86 raises: expr.sql() is outside the inner try, so the error goes to
\* the handler of line 121
StatementTextFails ==
    /\ pc = "loop"
    /\ i < total_statements
    /\ IsExpression(expressions[i + 1])
    /\ log' = Append(log, UnknownError)
    /\ pc' = "unknown"
    /\ returned' = ReturnsNone
    /\ UNCHANGED <<script, sql_content, expressions, total_statements, i,
                   original_sql, successful_direct, successful_preprocessed,
                   failed_conversions, output, calls, charset_passes, ppVars,
                   genVars>>

\* lines 86-92: transpile and write both succeed
DirectSuccess ==
    /\ pc = "loop"
    /\ i < total_statements
    /\ IsExpression(expressions[i + 1])
    /\ LET sql == ExprSql(expressions[i + 1].text)
       IN  /\ original_sql' = sql
           /\ calls' = Append(calls, [op |-> "transpile", phase |-> "direct",
                                      idx |-> i + 1, arg |-> sql, ok |-> TRUE])
           /\ output' = WriteStatement(output, i + 1, "direct", sql)
    /\ successful_direct' = successful_direct + 1
    /\ i' = i + 1
    /\ UNCHANGED <<pc, script, sql_content, expressions, total_statements,
                   successful_preprocessed, failed_conversions, log,
                   charset_passes, ppVars,
                   genVars, returned>>

\* a handler of line 93 that would start the statement's iteration again
DirectFailureTarget_Retry == "loop"

\* lines 93-97: the handler of the direct attempt falls through to the
\* fallback try of the same iteration
DirectFailureTarget == "fallback"

\* lines 86-95: transpile raises (rendered = FALSE), or transpile returns and
\* f_out.write raises while encoding the text, before anything is written
\* (rendered = TRUE); either way the handler of line 93 starts the fallback
DirectFailure ==
    /\ pc = "loop"
    /\ i < total_statements
    /\ IsExpression(expressions[i + 1])
    /\ \E rendered \in BOOLEAN :
        LET sql == ExprSql(expressions[i + 1].text)
        IN  /\ original_sql' = sql
            /\ calls' = Append(calls, [op |-> "transpile", phase |-> "direct",
                                       idx |-> i + 1, arg |-> sql,
                                       ok |-> rendered])
    /\ log' = Append(log, Entry("WARNING", "direct_failed", i + 1, NoText))
    /\ pc' = DirectFailureTarget
    /\ UNCHANGED <<script, sql_content, expressions, total_statements, i,
                   successful_direct, successful_preprocessed,
                   failed_conversions, output, charset_passes, ppVars,
                   genVars, returned>>

\* line 98 with the log record of lines 47-48
PreprocessLog(sql) ==
    IF preprocess_sql_statement(sql) # sql
    THEN <<Entry("INFO", "preprocessed", 0, sql)>>
    ELSE <<>>

\* lines 98-101: the preprocessed text is transpiled and written
FallbackSuccess ==
    /\ pc = "fallback"
    /\ LET pre == preprocess_sql_statement(original_sql)
       IN  /\ calls' = calls \o
                <<[op |-> "preprocess", phase |-> "fallback", idx |-> i + 1,
                   arg |-> original_sql, ok |-> TRUE],
                  [op |-> "transpile", phase |-> "fallback", idx |-> i + 1,
                   arg |-> pre, ok |-> TRUE]>>
           /\ output' = WriteStatement(output, i + 1, "preprocessed", pre)
    /\ log' = log \o PreprocessLog(original_sql)
    /\ successful_preprocessed' = successful_preprocessed + 1
    /\ i' = i + 1
    /\ pc' = "loop"
    /\ UNCHANGED <<script, sql_content, expressions, total_statements,
                   original_sql, successful_direct, failed_conversions,
                   charset_passes, ppVars,
                   genVars, returned>>

\* lines 98-108: the second transpile (rendered = FALSE) or the second write
\* (rendered = TRUE) raises
FallbackFailure ==
    /\ pc = "fallback"
    /\ \E rendered \in BOOLEAN :
        calls' = calls \o
            <<[op |-> "preprocess", phase |-> "fallback", idx |-> i + 1,
               arg |-> original_sql, ok |-> TRUE],
              [op |-> "transpile", phase |-> "fallback", idx |-> i + 1,
               arg |-> preprocess_sql_statement(original_sql),
               ok |-> rendered]>>
    /\ failed_conversions' = CountFailure(failed_conversions)
    /\ log' = log \o PreprocessLog(original_sql)
                  \o <<Entry("ERROR", "failed", i + 1, original_sql)>>
    /\ i' = i + 1
    /\ pc' = "loop"
    /\ UNCHANGED <<script, sql_content, expressions, total_statements,
                   original_sql, successful_direct, successful_preprocessed,
                   output, charset_passes, ppVars,
                   genVars, returned>>

\* lines 110-114: the four counters
CounterLog ==
    <<Entry("INFO", "summary", 0, NoText),
      Entry("INFO", "total", total_statements, NoText),
      Entry("INFO", "direct", successful_direct, NoText),
      Entry("INFO", "preprocessed_ok", successful_preprocessed, NoText),
      Entry("INFO", "failed_count", failed_conversions, NoText)>>

\* lines 110-117 with total_statements > 0
SummaryReport ==
    /\ pc = "loop"
    /\ i = total_statements
    /\ total_statements > 0
    /\ log' = log \o CounterLog \o
              <<Entry("INFO", "success_rate",
                      SuccessRate(successful_direct, successful_preprocessed,
                                  total_statements), NoText),
                Entry("INFO", "finished", 0, NoText)>>
    /\ pc' = "done"
    /\ returned' = ReturnsNone
    /\ UNCHANGED <<script, sql_content, expressions, total_statements, i,
                   original_sql, successful_direct, successful_preprocessed,
                   failed_conversions, output, calls, charset_passes, ppVars,
                   genVars>>

\* lines 110-115 with total_statements = 0: the division of line 115 raises
\* ZeroDivisionError, which the handler of line 121 logs
SummaryDivisionByZero ==
    /\ pc = "loop"
    /\ i = total_statements
    /\ total_statements = 0
    /\ log' = log \o CounterLog \o <<UnknownError>>
    /\ pc' = "unknown"
    /\ returned' = ReturnsNone
    /\ UNCHANGED <<script, sql_content, expressions, total_statements, i,
                   original_sql, successful_direct, successful_preprocessed,
                   failed_conversions, output, calls, charset_passes, ppVars,
                   genVars>>

Next ==
    \/ StartNotFound
    \/ StartUnreadable
    \/ StartParseError
    \/ StartParsed
    \/ StatementUnparseable
    \/ StatementTextFails
    \/ DirectSuccess
    \/ DirectFailure
    \/ FallbackSuccess
    \/ FallbackFailure
    \/ SummaryReport
    \/ SummaryDivisionByZero

Spec == Init /\ [][Next]_vars

-----------------------------------------------------------------------------
(* Harness for preprocess_sql_statement as a function of its argument *)

\* Pieces a statement text under test is put together from.
Fragments ==
    { <<" ">>, <<"=">>, <<"x">>, <<"1">>,
      <<"USING">>, <<"BTREE">>, <<"AUTO_INCREMENT">>, <<"row_format">>,
      <<"ON", " ", "UPDATE">>, <<"CURRENT_TIMESTAMP">>,
      <<"using", " ", "btree">>, <<"auto_increment", "=", "1">> }

RECURSIVE Flatten(_)
Flatten(parts) ==
    IF parts = <<>> THEN <<>> ELSE Head(parts) \o Flatten(Tail(parts))

PPInputs ==
    { Flatten(f) : f \in UNION { [1..n -> Fragments] : n \in 0..MaxParts } }

InitPre ==
    /\ pc = "start"
    /\ script = <<>>
    /\ sql_content = <<>>
    /\ expressions = <<>>
    /\ total_statements = 0
    /\ i = 0
    /\ original_sql = NoText
    /\ successful_direct = 0
    /\ successful_preprocessed = 0
    /\ failed_conversions = 0
    /\ output = <<>>
    /\ log = <<>>
    /\ calls = <<>>
    /\ charset_passes = 0
    /\ returned = "running"
    /\ gen_in = NoConstruct
    /\ gen_out = <<>>
    /\ pp_in\in PPInputs
    /\ pp_out = <<>>

\* normalize(x)
PPNormalize ==
    /\ pp_out = <<>>
    /\ pp_out' = <<preprocess_sql_statement(pp_in)>>
    /\ UNCHANGED <<pp_in, pipeVars, genVars>>

\* normalize(normalize(x))
PPRenormalize ==
    /\ Len(pp_out) = 1
    /\ pp_out' = Append(pp_out, preprocess_sql_statement(pp_out[1]))
    /\ UNCHANGED <<pp_in, pipeVars, genVars>>

NextPre == PPNormalize \/ PPRenormalize

PreSpec == InitPre /\ [][NextPre]_vars

-----------------------------------------------------------------------------
(* Dameng.Generator (dameng.py): type names, LIMIT and OFFSET *)

MaxCols == 2

\* The entries Dameng.Generator.TYPE_MAPPING adds after **Oracle's (lines
\* 41-85), keyed by the name of the exp.DataType.Type member.
DamengTypeOverrides ==
    [ TINYINT |-> "TINYINT", SMALLINT |-> "SMALLINT", INT |-> "INT",
      BIGINT |-> "BIGINT", FLOAT |-> "FLOAT", DOUBLE |-> "DOUBLE",
      DECIMAL |-> "DECIMAL", NUMBER |-> "NUMBER", REAL |-> "REAL",
      CHAR |-> "CHAR", VARCHAR |-> "VARCHAR", NVARCHAR |-> "NVARCHAR2",
      TEXT |-> "TEXT", CLOB |-> "CLOB", LONGTEXT |-> "TEXT",
      BINARY |-> "BINARY", VARBINARY |-> "VARBINARY", BLOB |-> "BLOB",
      LONGBLOB |-> "BLOB",
      DATE |-> "DATE", TIME |-> "TIME", DATETIME |-> "DATETIME",
      TIMESTAMP |-> "TIMESTAMP",
      TIMESTAMPTZ |-> "TIMESTAMP WITH TIME ZONE",
      TIMESTAMPLTZ |-> "TIMESTAMP WITH LOCAL TIME ZONE",
      BOOLEAN |-> "BOOLEAN", JSON |-> "JSON", XML |-> "XML",
      MEDIUMINT |-> "INT", MEDIUMTEXT |-> "TEXT", TINYTEXT |-> "TEXT",
      TINYBLOB |-> "BLOB", YEAR |-> "SMALLINT", ENUM |-> "VARCHAR",
      SET |-> "VARCHAR" ]

\* Oracle.Generator.TYPE_MAPPING: Oracle's own entries
OracleOwnTypeMapping ==
    [ TINYINT |-> "SMALLINT", SMALLINT |-> "SMALLINT", INT |-> "INT",
      BIGINT |-> "INT", DECIMAL |-> "NUMBER", DOUBLE |-> "DOUBLE PRECISION",
      VARCHAR |-> "VARCHAR2", NVARCHAR |-> "NVARCHAR2", NCHAR |-> "NCHAR",
      TEXT |-> "CLOB", TIMETZ |-> "TIME", TIMESTAMPTZ |-> "TIMESTAMP",
      BINARY |-> "BLOB", VARBINARY |-> "BLOB" ]

\* {**a, **b}: the entries of b replace those of a with the same key
DictMerge(a, b) ==
    [k \in DOMAIN a \cup DOMAIN b |-> IF k \in DOMAIN b THEN b[k] ELSE a[k]]

\* Oracle.Generator.TYPE_MAPPING with the entries it takes from the generic
\* generator
OracleTypeMapping ==
    DictMerge([ MEDIUMTEXT |-> "TEXT", LONGTEXT |-> "TEXT",
                TINYTEXT |-> "TEXT", MEDIUMBLOB |-> "BLOB",
                LONGBLOB |-> "BLOB", TINYBLOB |-> "BLOB" ],
              OracleOwnTypeMapping)

\* the inherited mappings the harness runs the generator with
BaseTypeMappings == { OracleOwnTypeMapping, OracleTypeMapping }

\* the spread of line 39 put after the Dameng entries instead of before
TYPE_MAPPING_BaseLast(base) == DictMerge(DamengTypeOverrides, base)

\* Dameng.Generator.TYPE_MAPPING = {**Oracle.Generator.TYPE_MAPPING, ...}
TYPE_MAPPING(base) == DictMerge(base, DamengTypeOverrides)

AbstractTypes ==
    DOMAIN DamengTypeOverrides \cup {"NCHAR", "TIMETZ", "MEDIUMBLOB", "UUID"}

\* Generator.datatype_sql: TYPE_MAPPING.get(type, type.value)
TypeSql(base, t) ==
    IF t \in DOMAIN TYPE_MAPPING(base) THEN TYPE_MAPPING(base)[t] ELSE t

ColNames == <<"id", "name", "c3", "c4">>

RECURSIVE ColumnDefs(_, _, _)
\* the column definitions from column k on, joined by ", "
ColumnDefs(base, cols, k) ==
    IF k > Len(cols) THEN <<>>
    ELSE (IF k > 1 THEN <<", ">> ELSE <<>>)
         \o <<ColNames[k], " ", TypeSql(base, cols[k])>>
         \o ColumnDefs(base, cols, k + 1)

\* CREATE TABLE test (<columns>) written for dameng
CreateTableSql(base, cols) ==
    <<"CREATE TABLE test", " ", "(">> \o ColumnDefs(base, cols, 1) \o <<")">>

\* the values of the LIMIT and OFFSET expressions the harness uses
ClauseValues == {1, 5, 10}

\* self.sql(expression, 'expression') of a number literal
LiteralSql(n) == ToString(n)

\* limit_sql without the test of line 129
limit_sql_TopIgnored(n, top) == <<"LIMIT", " ", LiteralSql(n)>>

\* Dameng.Generator.limit_sql
limit_sql(n, top) ==
    IF top THEN <<"TOP", " ", LiteralSql(n)>>
    ELSE <<"LIMIT", " ", LiteralSql(n)>>

\* Dameng.Generator.offset_sql
offset_sql(m) == <<"OFFSET", " ", LiteralSql(m)>>

\* SELECT * FROM users with its limit and offset modifiers, each an empty
\* sequence or one value, as test_limit_offset expects it written
SelectSql(limit, offset) ==
    <<"SELECT * FROM users">>
    \o (IF limit # <<>> THEN <<" ">> \o limit_sql(limit[1], FALSE) ELSE <<>>)
    \o (IF offset # <<>> THEN <<" ">> \o offset_sql(offset[1]) ELSE <<>>)

OptionalValue == {<<>>} \cup { <<n>> : n \in ClauseValues }

GenInputs ==
    { [kind |-> "create", base |-> b, cols |-> c] :
        b \in BaseTypeMappings,
        c \in UNION { [1..n -> AbstractTypes] : n \in 1..MaxCols } }
    \cup { [kind |-> "limit", n |-> n, top |-> t] :
             n \in ClauseValues, t \in BOOLEAN }
    \cup { [kind |-> "offset", n |-> n] : n \in ClauseValues }
    \cup { [kind |-> "select", limit |-> l, offset |-> o] :
             l \in OptionalValue, o \in OptionalValue }

InitGen ==
    /\ pc = "start"
    /\ script = <<>>
    /\ sql_content = <<>>
    /\ expressions = <<>>
    /\ total_statements = 0
    /\ i = 0
    /\ original_sql = NoText
    /\ successful_direct = 0
    /\ successful_preprocessed = 0
    /\ failed_conversions = 0
    /\ output = <<>>
    /\ log = <<>>
    /\ calls = <<>>
    /\ charset_passes = 0
    /\ returned = "running"
    /\ pp_in = <<>>
    /\ pp_out = <<>>
    /\ gen_in \in GenInputs
    /\ gen_out = <<>>

GenCreateTable ==
    /\ gen_in.kind = "create"
    /\ gen_out = <<>>
    /\ gen_out' = CreateTableSql(gen_in.base, gen_in.cols)
    /\ UNCHANGED <<gen_in, pipeVars, ppVars>>

GenLimit ==
    /\ gen_in.kind = "limit"
    /\ gen_out = <<>>
    /\ gen_out' = limit_sql(gen_in.n, gen_in.top)
    /\ UNCHANGED <<gen_in, pipeVars, ppVars>>

GenOffset ==
    /\ gen_in.kind = "offset"
    /\ gen_out = <<>>
    /\ gen_out' = offset_sql(gen_in.n)
    /\ UNCHANGED <<gen_in, pipeVars, ppVars>>

GenSelect ==
    /\ gen_in.kind = "select"
    /\ gen_out = <<>>
    /\ gen_out' = SelectSql(gen_in.limit, gen_in.offset)
    /\ UNCHANGED <<gen_in, pipeVars, ppVars>>

NextGen == GenCreateTable \/ GenLimit \/ GenOffset \/ GenSelect

GenSpec == InitGen /\ [][NextGen]_vars

-----------------------------------------------------------------------------
(* Vocabulary of the properties *)

\* f_in.read() returned (line 70 logged the global preprocessing step)
ScriptRead == \E n \in DOMAIN log : log[n].event = "global_preprocess"

\* the parse of line 76 returned (line 78 logged the statement count)
Parsed == \E n \in DOMAIN log : log[n].event = "detected"

\* lines 111-114 have reported the counters
SummaryReported == \E n \in DOMAIN log : log[n].event = "total"

\* the number logged by the summary record of the given kind
Logged(event) ==
    LET n == CHOOSE m \in DOMAIN log : log[m].event = event IN log[n].idx

\* the run has left convert_mysql_to_dameng
Ended == pc \in {"done", "unknown", "not_found"}

\* statement k has gone through its loop iteration
Processed(k) == k \in 1..i

\* the output records of statement k
Written(k) == { n \in DOMAIN output : output[n].idx = k }

\* the invocations of the given function made for statement k
CallsOf(op, phase, k) ==
    { n \in DOMAIN calls :
        calls[n].op = op /\ calls[n].phase = phase /\ calls[n].idx = k }

\* the log records of statement k that classify it as Failed
FailedEntries(k) ==
    { n \in DOMAIN log :
        log[n].idx = k /\ log[n].event \in {"unparseable", "failed"} }

IsCharsetUnit(u) == Upper(u) = "UTF8MB4"

HasCharset(text) == \E k \in DOMAIN text : IsCharsetUnit(text[k])

-----------------------------------------------------------------------------
(* Properties *)

\* C1: after every processed statement successful_direct +
\* successful_preprocessed + failed_conversions equals the number of
\* statements processed so far, and the summary reports a total equal to the
\* sum of the three other counters (0 = 0 + 0 + 0 for the empty script).
C1_StatsInvariant ==
    /\ successful_direct + successful_preprocessed + failed_conversions = i
    /\ SummaryReported =>
         /\ i = total_statements
         /\ Logged("total") = Logged("direct") + Logged("preprocessed_ok")
                                + Logged("failed_count")
         /\ Logged("total") = total_statements

\* a two-statement run with a fallback failure has been summarised
C1_Witness ==
    /\ SummaryReported
    /\ total_statements >= 2
    /\ failed_conversions >= 1
    /\ \E k \in 1..i : CallsOf("preprocess", "fallback", k) # {}

\* C2: the statements written to the output appear in the order of the
\* parsed input: the statement indices of the output records increase
\* strictly, and each is the index of a parsed statement.
C2_OrderPreserved ==
    /\ \A a, b \in DOMAIN output :
         a < b => output[a].idx < output[b].idx
    /\ \A a \in DOMAIN output :
         /\ output[a].idx \in 1..total_statements
         /\ expressions[output[a].idx].tree

\* a directly converted and a fallback-converted statement are both written
C2_Witness ==
    /\ Len(output) >= 2
    /\ \E a, b \in DOMAIN output :
         output[a].via = "direct" /\ output[b].via = "preprocessed"

\* C3: when the first transpile call of a statement returns, the
\* preprocessor is never invoked for that statement (also when the write
\* that follows the call fails).
C3_NoFallbackAfterDirectRender ==
    \A n \in DOMAIN calls :
        (calls[n].op = "transpile" /\ calls[n].phase = "direct" /\ calls[n].ok)
            => CallsOf("preprocess", "fallback", calls[n].idx) = {}

\* C4: preprocess_sql_statement is idempotent:
\* normalize(normalize(x)) = normalize(x) for every text x.
C4_Idempotent ==
    Len(pp_out) = 2 => pp_out[2] = pp_out[1]

\* C5: once the script is parsed, no failure of a single statement ends the
\* run early: a run that has ended has taken every statement through its
\* loop iteration and has reported the totals.
C5_StatementFailureNeverAborts ==
    (Parsed /\ Ended) => (i = total_statements /\ SummaryReported)

\* C6: a script of zero statements ends normally: the division by
\* total_statements is not evaluated and the handler of unknown errors is
\* not entered.
C6_EmptyScriptCompletes ==
    (Parsed /\ total_statements = 0) =>
        /\ pc \in {"loop", "done"}
        /\ \A n \in DOMAIN log : log[n].event # "unknown_error"

\* C7: the output holds exactly the non-failed statements: as many records
\* as successful_direct + successful_preprocessed, at most one per
\* statement, and none of a statement classified Failed.
C7_OutputIsSuccesses ==
    /\ Len(output) = successful_direct + successful_preprocessed
    /\ \A k \in 1..total_statements :
         /\ Cardinality(Written(k)) <= 1
         /\ FailedEntries(k) # {} => Written(k) = {}
         /\ (Processed(k) /\ FailedEntries(k) = {}) => Written(k) # {}

\* a written statement next to one that failed after the fallback and one
\* whose first write failed
C7_Witness ==
    /\ Len(output) >= 1
    /\ \E k \in 1..i : \E n \in DOMAIN log :
         log[n].idx = k /\ log[n].event = "failed"
    /\ \E k \in 1..i :
         /\ Written(k) # {}
         /\ \E n \in CallsOf("transpile", "direct", k) : calls[n].ok

\* C8: a statement without expression tree is classified Failed in one
\* step: failed_conversions grows by one, nothing is written, neither
\* transpile nor the preprocessor is invoked, and the loop goes on to the
\* next statement.
C8_UnparseableShortCircuits ==
    [][ (pc = "loop" /\ i < total_statements /\ ~expressions[i + 1].tree)
          => /\ failed_conversions' = failed_conversions + 1
             /\ output' = output
             /\ calls' = calls
             /\ successful_direct' = successful_direct
             /\ successful_preprocessed' = successful_preprocessed
             /\ i' = i + 1
             /\ pc' = "loop" ]_vars

\* an unparseable statement was skipped and the next one was converted
C8_Witness ==
    /\ \E k \in 1..i :
         /\ ~expressions[k].tree
         /\ k + 1 <= i
         /\ Written(k + 1) # {}
    /\ failed_conversions = 1

\* C9: the charset rewrite runs exactly once, before the parse, over the
\* whole script: afterwards no statement text that the loop works on (the
\* parsed texts, expr.sql(), the arguments of transpile and of the
\* preprocessor) holds utf8mb4 in any letter case, every occurrence has
\* become UTF8 and every other unit is the raw script's.
C9_CharsetRewrittenOnce ==
    /\ charset_passes = IF ScriptRead THEN 1 ELSE 0
    /\ Parsed =>
         /\ ScriptRead
         /\ Len(sql_content) = Len(script)
         /\ \A k \in DOMAIN script :
              /\ Len(sql_content[k]) = Len(script[k])
              /\ \A m \in DOMAIN script[k] :
                   sql_content[k][m] =
                     IF script[k][m] \in {"utf8mb4", "Utf8Mb4", "UTF8MB4"}
                     THEN "UTF8" ELSE script[k][m]
         /\ \A k \in DOMAIN expressions :
              expressions[k].tree => expressions[k].text = sql_content[k]
         /\ ~HasCharset(original_sql)
         /\ \A n \in DOMAIN calls : ~HasCharset(calls[n].arg)
         /\ \A n \in DOMAIN output : ~HasCharset(output[n].sql)

\* a statement whose raw text names utf8mb4 has been converted
C9_Witness ==
    /\ Parsed
    /\ \E k \in 1..i :
         /\ HasCharset(script[k])
         /\ Written(k) # {}

\* C10: when the run is complete the log holds exactly one outcome record
\* for every statement, whatever its outcome, and ends with the summary
\* (the four counters and the success rate).
C10_OneOutcomeEntryPerStatement ==
    (pc = "done") =>
        /\ \A k \in 1..total_statements :
             Cardinality({ n \in DOMAIN log :
                 log[n].idx = k /\
                 log[n].event \in {"unparseable", "failed", "direct_ok",
                                   "preprocessed"} }) = 1
        /\ SummaryReported
        /\ \E n \in DOMAIN log : log[n].event = "success_rate"

\* C11: every processed statement that is missing from the output has a log
\* record that classifies it as Failed and carries its whole text (the text
\* as read, as rewritten by the charset rule, or as rendered from its tree),
\* for failures at the parse stage as for failures after the fallback.
C11_OmittedStatementsFullyLogged ==
    Parsed =>
        \A k \in 1..i :
            Written(k) = {} =>
                \E n \in FailedEntries(k) :
                    log[n].text \in { script[k], sql_content[k],
                                      ExprSql(sql_content[k]) }

\* C12: when the input cannot be opened, read or decoded, no statement is
\* processed or written, exactly one error is reported, and the caller gets
\* a result that differs from the result of a completed run.
C12_FatalInputErrorDistinguished ==
    (Ended /\ ~ScriptRead) =>
        /\ i = 0
        /\ calls = <<>>
        /\ output = <<>>
        /\ Cardinality({ n \in DOMAIN log : log[n].level = "ERROR" }) = 1
        /\ returned \notin {"running", ReturnsNone}

\* the type name written for column k of a rendered CREATE TABLE
WrittenType(k) == gen_out[4 * k + 2]

\* C13: type names are looked up override-first: a column type is written
\* with the Dameng entry when there is one and with the inherited entry
\* otherwise; MEDIUMINT is written INT, TINYTEXT, MEDIUMTEXT and LONGTEXT
\* are written TEXT, and (id MEDIUMINT, name TINYTEXT) is written
\* CREATE TABLE test (id INT, name TEXT).
C13_TypeLookupOverrideFirst ==
    (gen_in.kind = "create" /\ gen_out # <<>>) =>
        /\ \A k \in DOMAIN gen_in.cols :
             LET t == gen_in.cols[k]
             IN  /\ t \in DOMAIN DamengTypeOverrides
                      => WrittenType(k) = DamengTypeOverrides[t]
                 /\ (t \notin DOMAIN DamengTypeOverrides
                       /\ t \in DOMAIN gen_in.base)
                      => WrittenType(k) = gen_in.base[t]
                 /\ t = "MEDIUMINT" => WrittenType(k) = "INT"
                 /\ t \in {"TINYTEXT", "MEDIUMTEXT", "LONGTEXT"}
                      => WrittenType(k) = "TEXT"
        /\ gen_in.cols = <<"MEDIUMINT", "TINYTEXT">> =>
             gen_out = <<"CREATE TABLE test", " ", "(", "id", " ", "INT",
                         ", ", "name", " ", "TEXT", ")">>

\* the statement of test_mysql_to_dameng_conversion has been rendered over a
\* base mapping that has its own TINYTEXT entry
C13_Witness ==
    /\ gen_in.kind = "create"
    /\ gen_in.cols = <<"MEDIUMINT", "TINYTEXT">>
    /\ "TINYTEXT" \in DOMAIN gen_in.base
    /\ gen_out # <<>>

\* C14: limit_sql writes TOP n when top is true and LIMIT n otherwise,
\* offset_sql writes OFFSET m, and a statement with LIMIT 10 OFFSET 5 is
\* written with both clauses.
C14_LimitOffsetForms ==
    gen_out # <<>> =>
        /\ gen_in.kind = "limit" =>
             /\ gen_in.top => gen_out = <<"TOP", " ", ToString(gen_in.n)>>
             /\ ~gen_in.top => gen_out = <<"LIMIT", " ", ToString(gen_in.n)>>
        /\ gen_in.kind = "offset" =>
             gen_out = <<"OFFSET", " ", ToString(gen_in.n)>>
        /\ (gen_in.kind = "select" /\ gen_in.limit = <<10>>
              /\ gen_in.offset = <<5>>) =>
             gen_out = <<"SELECT * FROM users", " ", "LIMIT", " ", "10",
                         " ", "OFFSET", " ", "5">>

\* limit_sql has been called with top = TRUE
C14_Witness ==
    /\ gen_in.kind = "limit"
    /\ gen_in.top
    /\ gen_in.n = 10
    /\ gen_out = <<"TOP", " ", "10">>

\* the direct and the fallback steps recorded for statement k
DirectAttempts(k) == CallsOf("transpile", "direct", k)

PreprocessAttempts(k) == CallsOf("preprocess", "fallback", k)

FallbackAttempts(k) == CallsOf("transpile", "fallback", k)

\* statement k is classified Failed by the handler of lines 102-108
FailedAfterFallback(k) ==
    \E n \in FailedEntries(k) : log[n].event = "failed"

\* the attempts recorded for every statement follow the state machine
AttemptsFollowStateMachine ==
    \A k \in DOMAIN expressions :
        /\ Cardinality(DirectAttempts(k)) <= 1
        /\ Cardinality(PreprocessAttempts(k)) <= 1
        /\ Cardinality(FallbackAttempts(k)) <= 1
        /\ ~expressions[k].tree =>
             DirectAttempts(k) \cup PreprocessAttempts(k) = {}
        /\ (Processed(k) /\ expressions[k].tree) =>
             Cardinality(DirectAttempts(k)) = 1
        /\ k > i => PreprocessAttempts(k) \cup FallbackAttempts(k) = {}
        /\ k > i + 1 => DirectAttempts(k) = {}
        /\ PreprocessAttempts(k) # {} =>
             /\ \A d \in DirectAttempts(k), f \in PreprocessAttempts(k) : d < f
             /\ DirectAttempts(k) # {}
             /\ \E n \in DOMAIN log :
                  log[n].event = "direct_failed" /\ log[n].idx = k
             /\ \A n \in Written(k) : output[n].via # "direct"
        /\ (expressions[k].tree /\ FailedAfterFallback(k)) =>
             /\ DirectAttempts(k) # {}
             /\ FallbackAttempts(k) # {}
             /\ Written(k) = {}

\* a step leaves the record of every processed statement as it is
TerminalStatesKept ==
    \A k \in 1..i :
        /\ i' >= i
        /\ DirectAttempts(k)' = DirectAttempts(k)
        /\ PreprocessAttempts(k)' = PreprocessAttempts(k)
        /\ FallbackAttempts(k)' = FallbackAttempts(k)
        /\ Written(k)' = Written(k)
        /\ FailedEntries(k)' = FailedEntries(k)

C16_FallbackUsesSourceText ==
    \A n \in DOMAIN calls :
        calls[n].op = "preprocess" =>
            calls[n].arg = sql_content[calls[n].idx]

\* the output is the rendered statements written so far, in order, each
\* complete and closed by ';' and a newline
OutputIntact ==
    /\ Len(output) = successful_direct + successful_preprocessed
    /\ \A a, b \in DOMAIN output : a < b => output[a].idx < output[b].idx
    /\ \A n \in DOMAIN output :
         /\ output[n].term = ";\n"
         /\ output[n].sql \in
              { ExprSql(sql_content[output[n].idx]),
                preprocess_sql_statement(ExprSql(sql_content[output[n].idx])) }

\* C17: when an unknown failure reaches the handler of line 121 after k
\* statements were written, the run ends with a result other than that of a
\* completed run and the output is still exactly those k statements, in
\* order, each complete and terminated.
C17_UnknownFailureKeepsOutput ==
    pc = "unknown" =>
        /\ returned \notin {"running", ReturnsNone}
        /\ OutputIntact

\* the text rule 4 is applied to (line 45 runs after lines 35, 38 and 41)
Rule4Input == ReSub(3, ReSub(2, ReSub(1, pp_in)))

\* the positions of the AUTO_INCREMENT keyword in a text
AutoIncrementAt(s) == { p \in DOMAIN s : Upper(s[p]) = "AUTO_INCREMENT" }

\* C18: rule 4 removes only a table option AUTO_INCREMENT = <integer>: an
\* AUTO_INCREMENT keyword that is not followed by '=' and digits is still in
\* the text after the rule, and what the rule removes starts and ends at a
\* token boundary (no part of a longer identifier or number is cut off).
C18_OnlyTableOptionRemoved ==
    pp_out # <<>> =>
        /\ Cardinality(AutoIncrementAt(pp_out[1])) =
             Cardinality({ p \in AutoIncrementAt(Rule4Input) :
                             MatchAutoIncrement(Rule4Input, p) = 0 })
        /\ \A p \in AutoIncrementAt(Rule4Input) :
             LET e == MatchAutoIncrement(Rule4Input, p)
             IN  e # 0 =>
                   /\ p = 1 \/ ~IsWord(Rule4Input[p - 1])
                   /\ e > Len(Rule4Input) \/ ~IsWord(Rule4Input[e])

=============================================================================
